---- MODULE Spec2Model ----
(***************************************************************************)
(* SubjectiveBitBucketDataSource: fetch (directory bootstrap, paginated    *)
(* listing, one clone per repository), get_icon and get_connection_data.   *)
(*                                                                         *)
(* Python values are modelled as follows.                                  *)
(*   - An optional value (a dict key that may be missing, or None) is a    *)
(*     sequence of length 0 (missing / None) or 1 (present).               *)
(*   - A repository record is [name, links]; links is an optional dict     *)
(*     [clone], clone an optional list of dicts [href], href an optional   *)
(*     URL.  URLs and names are the API's position <<page, index>> of the  *)
(*     record, so that every record of a listing is distinct.              *)
(*   - An HTTP response is [status, body]; body is the JSON object, a dict *)
(*     [values] with values an optional list of records.                   *)
(*   - The bytes captured from the clone process are a sequence of 0..255. *)
(***************************************************************************)
EXTENDS Integers, Sequences, FiniteSets, TLC

VARIABLES
    params,       \* self.params: [username, token, target_directory]
    targetState,  \* the file system at target_directory: "absent", "dir", "file"
    pc,           \* where the adapter is: "idle", "get_repos", "clone_loop"
    page,         \* get_repos: local page
    repos,        \* get_repos: local repos; then fetch: local repos
    idx,          \* fetch: position of the for loop in repos (1-based)
    \* observations of the running (or, when idle, the last) invocation:
    dirAtStart,   \* targetState when fetch began
    mkdir,        \* os.makedirs: "none", "ok", "failed"
    requests,     \* the requests.get calls, in order
    responses,    \* the responses they received, in order
    attempts,     \* the subprocess.run calls, in order
    skipped,      \* the "No clone URL found ... Skipping." log lines, in order
    result        \* observation: what the last invocation returned or raised

vars == <<params, targetState, pc, page, repos, idx, dirAtStart, mkdir,
          requests, responses, attempts, skipped, result>>

----------------------------------------------------------------------------
(* Bounds of the model. *)

\* the listing is cut off after this many page requests
MaxPage == 3
\* the API returns at most this many records in one page
MaxPageLen == 2
\* the API returns at most this many records in one listing
MaxRepos == 3

(* Program constants. *)
PageLen == 100
HttpOk == 200
HttpNotFound == 404
HttpForbidden == 403

----------------------------------------------------------------------------
(* Optional values and dict.get *)

None == <<>>
Some(v) == <<v>>

\* d.get(key, default), given the optional value stored under key
Get(opt, default) == IF Len(opt) = 0 THEN default ELSE opt[1]

\* Python truthiness of an optional URL: None is false, a URL is true
Truthy(opt) == Len(opt) = 1

----------------------------------------------------------------------------
(* Inputs: what the API, the clone process and the file system may answer *)

\* the shapes of `links` of a record whose URL is u
LinkShapes(u) ==
    { None,                                      \* no 'links'
      Some([clone |-> None]),                    \* 'links' without 'clone'
      Some([clone |-> Some(<<>>)]),              \* 'clone': []
      Some([clone |-> Some(<<[href |-> None]>>)]),     \* first entry without 'href'
      Some([clone |-> Some(<<[href |-> Some(u)]>>)]) } \* first entry with 'href'

\* the record the API lists at position i of page p
Records(p, i) == { [name |-> <<p, i>>, links |-> l] : l \in LinkShapes(<<p, i>>) }

\* the non-empty `values` arrays page p may hold, with at most n records
RECURSIVE PagesOfLen(_, _)
PagesOfLen(p, n) ==
    IF n = 0 THEN { <<>> }
    ELSE { Append(s, r) : s \in PagesOfLen(p, n - 1), r \in Records(p, n) }

NonEmptyPages(p, room) ==
    UNION { PagesOfLen(p, n) : n \in 1 .. (IF room < MaxPageLen THEN room ELSE MaxPageLen) }

OtherStatuses == { 204, 500 }

\* the number of records the API has listed in the responses so far
RECURSIVE Listed(_)
Listed(rs) ==
    IF rs = <<>> THEN 0
    ELSE Listed(SubSeq(rs, 1, Len(rs) - 1))
         + Len(Get(rs[Len(rs)].body.values, <<>>))

\* the responses the API may give to a request for page p
ApiResponses(p, room) ==
    { [status |-> HttpOk, body |-> [values |-> Some(v)]] : v \in NonEmptyPages(p, room) }
    \cup { [status |-> HttpOk, body |-> [values |-> Some(<<>>)]],
           [status |-> HttpOk, body |-> [values |-> None]] }
    \cup { [status |-> s, body |-> [values |-> None]] :
             s \in { HttpNotFound, HttpForbidden } \cup OtherStatuses }

\* what stderr of a failed `git clone` may hold: "e-acute" in UTF-8, and in Latin-1
StderrSamples == { <<195, 169>>, <<233>> }

\* the ways subprocess.run may end
CloneOutcomes ==
    { [kind |-> "ok", stderr |-> <<>>],
      [kind |-> "exception", stderr |-> <<>>] }      \* e.g. FileNotFoundError
    \cup { [kind |-> "nonzero", stderr |-> b] : b \in StderrSamples }

IconFileStates == { "absent", "readable", "unreadable" }

----------------------------------------------------------------------------
(* Results and errors *)

Error(type, code) == [type |-> type, code |-> code]

Returned(op, input, value) ==
    [op |-> op, status |-> "returned", input |-> input, value |-> Some(value),
     error |-> None]

Raised(op, input, err) ==
    [op |-> op, status |-> "raised", input |-> input, value |-> None,
     error |-> Some(err)]

Running(op, input) ==
    [op |-> op, status |-> "running", input |-> input, value |-> None,
     error |-> None]

NoCall == [op |-> "none", status |-> "none", input |-> "", value |-> None,
           error |-> None]

----------------------------------------------------------------------------
(* fetch, lines 24-35: the target directory *)

\* variant: the OSError of os.makedirs is logged and not raised again
MakedirsSwallowed == None

\* the OSError of os.makedirs is logged and raised again
MakedirsFailed == Some(Error("OSError", None))

\* variant: without the os.path.isdir branch
EnsureTargetDirectory_noIsdir(fs, mkOk) ==
    IF fs = "absent"
    THEN IF mkOk
         THEN [fs |-> "dir", mkdir |-> "ok", raised |-> None]
         ELSE [fs |-> fs, mkdir |-> "failed", raised |-> MakedirsFailed]
    ELSE [fs |-> fs, mkdir |-> "none", raised |-> None]

\* fs is what is at target_directory; mkOk is whether os.makedirs succeeds
EnsureTargetDirectory(fs, mkOk) ==
    IF fs = "absent"                                  \* not os.path.exists
    THEN IF mkOk
         THEN [fs |-> "dir", mkdir |-> "ok", raised |-> None]
         ELSE [fs |-> fs, mkdir |-> "failed", raised |-> MakedirsFailed]
    ELSE IF fs # "dir"                                \* not os.path.isdir
         THEN [fs |-> fs, mkdir |-> "none",
               raised |-> Some(Error("NotADirectoryError", None))]
         ELSE [fs |-> fs, mkdir |-> "none", raised |-> None]

----------------------------------------------------------------------------
(* get_repos *)

\* variant: page and repos kept on the adapter, not bound anew by each call
get_repos_locals_kept == [page |-> page, repos |-> repos]

\* lines 56-57: the locals of one invocation
get_repos_locals == [page |-> 1, repos |-> <<>>]

\* lines 58-64: the request for page pg
Request(pg) ==
    [url |-> <<"https://api.bitbucket.org/2.0/repositories/", params.username>>,
     authorization |-> <<"Bearer", params.token>>,
     pagelen |-> PageLen,
     page |-> pg]

\* line 69: response.json().get('values', [])
page_repos(resp) == Get(resp.body.values, <<>>)

\* lines 75-86: the error raised for a status other than 200
StatusError(status) ==
    IF status = HttpNotFound THEN Error("ValueError", None)
    ELSE IF status = HttpForbidden THEN Error("PermissionError", None)
    ELSE Error("ConnectionError", Some(status))

\* variant: `repos = page_repos` instead of repos.extend(page_repos)
OnPage_assign(pg, acc, values) ==
    IF values = <<>>
    THEN [next |-> "break", page |-> pg, repos |-> acc, error |-> None]
    ELSE [next |-> "continue", page |-> pg + 1, repos |-> values,
          error |-> None]

\* variant: without the `if not page_repos: break`
OnPage_noBreak(pg, acc, values) ==
    [next |-> "continue", page |-> pg + 1, repos |-> acc \o values,
     error |-> None]

\* lines 70-74: what a 200 response does to the loop
OnPage(pg, acc, values) ==
    IF values = <<>>
    THEN [next |-> "break", page |-> pg, repos |-> acc, error |-> None]
    ELSE [next |-> "continue", page |-> pg + 1, repos |-> acc \o values,
          error |-> None]

\* variant: a status other than 200, 404 and 403 is tried again
get_repos_step_retry(pg, acc, resp) ==
    IF resp.status = HttpOk
    THEN OnPage(pg, acc, page_repos(resp))
    ELSE IF resp.status \in { HttpNotFound, HttpForbidden }
    THEN [next |-> "raise", page |-> pg, repos |-> acc,
          error |-> Some(StatusError(resp.status))]
    ELSE [next |-> "continue", page |-> pg, repos |-> acc, error |-> None]

\* variant: response.json()['values'] instead of .get('values', [])
get_repos_step_subscript(pg, acc, resp) ==
    IF resp.status = HttpOk
    THEN IF Len(resp.body.values) = 0
         THEN [next |-> "raise", page |-> pg, repos |-> acc,
               error |-> Some(Error("KeyError", None))]
         ELSE OnPage(pg, acc, resp.body.values[1])
    ELSE [next |-> "raise", page |-> pg, repos |-> acc,
          error |-> Some(StatusError(resp.status))]

\* lines 68-86: one iteration of the while loop on response resp
get_repos_step(pg, acc, resp) ==
    IF resp.status = HttpOk
    THEN OnPage(pg, acc, page_repos(resp))
    ELSE [next |-> "raise", page |-> pg, repos |-> acc,
          error |-> Some(StatusError(resp.status))]

----------------------------------------------------------------------------
(* fetch, line 46: repo.get('links', {}).get('clone', [{}])[0].get('href') *)

first_clone_url(repo) ==
    LET links == Get(repo.links, [clone |-> None])
        clone == Get(links.clone, <<[href |-> None]>>)
    IN  IF Len(clone) = 0                         \* [][0]
        THEN [raised |-> Some(Error("IndexError", None)), value |-> None]
        ELSE [raised |-> None, value |-> clone[1].href]

----------------------------------------------------------------------------
(* clone_repo *)

IsCont(b) == b >= 128 /\ b <= 191

\* bytes.decode(): whether the bytes are well-formed UTF-8
RECURSIVE Utf8Valid(_)
Utf8Valid(bs) ==
    IF bs = <<>> THEN TRUE
    ELSE LET b == bs[1]
             n == IF b < 128 THEN 1
                  ELSE IF b >= 194 /\ b <= 223 THEN 2
                  ELSE IF b >= 224 /\ b <= 239 THEN 3
                  ELSE IF b >= 240 /\ b <= 244 THEN 4
                  ELSE 0
         IN  /\ n > 0
             /\ Len(bs) >= n
             /\ \A k \in 2 .. n : IsCont(bs[k])
             /\ (b = 224 => bs[2] >= 160)
             /\ (b = 237 => bs[2] <= 159)
             /\ (b = 240 => bs[2] >= 144)
             /\ (b = 244 => bs[2] <= 143)
             /\ Utf8Valid(SubSeq(bs, n + 1, Len(bs)))

\* line 96: the handler of CalledProcessError formats e.stderr.decode().strip()
OnCalledProcessError(stderr) ==
    IF Utf8Valid(stderr) THEN None
    ELSE Some(Error("UnicodeDecodeError", None))

\* lines 91-98: the exception that leaves clone_repo, if any
clone_repo(outcome) ==
    IF outcome.kind = "ok" THEN None
    ELSE IF outcome.kind = "nonzero" THEN OnCalledProcessError(outcome.stderr)
    ELSE None                                      \* except Exception: logged

----------------------------------------------------------------------------
(* get_icon and get_connection_data *)

BuiltinSvg == "<svg viewBox=0 0 32 32 ...>"
IconFileSvg == "<svg icon.svg>"

\* variant: icon.svg is read when it is there, with the built-in as fallback
get_icon_fromFile(iconFile) ==
    [raised |-> None,
     value |-> Some(IF iconFile = "readable" THEN IconFileSvg ELSE BuiltinSvg)]

\* lines 101-118; iconFile is the state of icon.svg next to the module
get_icon(iconFile) == [raised |-> None, value |-> Some(BuiltinSvg)]

\* lines 120-127
get_connection_data ==
    [connection_type |-> "BitBucket",
     fields |-> <<"username", "token", "target_directory">>]

----------------------------------------------------------------------------
(* The adapter as a state machine *)

\* line 15: self.params = params
Init ==
    /\ params = [username |-> "alice", token |-> "secret",
                 target_directory |-> "/data/repos"]
    /\ targetState \in { "absent", "dir", "file" }
    /\ pc = "idle"
    /\ page = 0
    /\ repos = <<>>
    /\ idx = 0
    /\ dirAtStart = "none"
    /\ mkdir = "none"
    /\ requests = <<>>
    /\ responses = <<>>
    /\ attempts = <<>>
    /\ skipped = <<>>
    /\ result = NoCall

\* lines 17-37 and 56-60: fetch is called; the directory is ensured and
\* get_repos is entered
Fetch ==
    /\ pc = "idle"
    /\ \E mkOk \in BOOLEAN :
         LET d == EnsureTargetDirectory(targetState, mkOk)
         IN  /\ targetState' = d.fs
             /\ mkdir' = d.mkdir
             /\ IF Len(d.raised) = 0
                THEN /\ pc' = "get_repos"
                     /\ page' = get_repos_locals.page
                     /\ repos' = get_repos_locals.repos
                     /\ result' = Running("fetch", targetState)
                ELSE /\ pc' = "idle"
                     /\ result' = Raised("fetch", targetState, d.raised[1])
                     /\ UNCHANGED <<page, repos>>
    /\ dirAtStart' = targetState
    /\ requests' = <<>>
    /\ responses' = <<>>
    /\ attempts' = <<>>
    /\ skipped' = <<>>
    /\ UNCHANGED <<params, idx>>

\* lines 62-88 and 37-42: one page is requested and handled; when the loop
\* ends, get_repos returns to fetch (or raises through it)
GetReposPage ==
    /\ pc = "get_repos"
    /\ page <= MaxPage
    /\ \E resp \in ApiResponses(page, MaxRepos - Listed(responses)) :
         LET s == get_repos_step(page, repos, resp)
         IN  /\ requests' = Append(requests, Request(page))
             /\ responses' = Append(responses, resp)
             /\ page' = s.page
             /\ repos' = s.repos
             /\ IF s.next = "continue"
                THEN UNCHANGED <<pc, idx, result>>
                ELSE IF s.next = "raise"
                THEN /\ pc' = "idle"
                     /\ result' = Raised("fetch", dirAtStart, s.error[1])
                     /\ UNCHANGED idx
                ELSE IF s.repos = <<>>                     \* if not repos: return
                THEN /\ pc' = "idle"
                     /\ result' = Returned("fetch", dirAtStart, None)
                     /\ UNCHANGED idx
                ELSE /\ pc' = "clone_loop"
                     /\ idx' = 1
                     /\ UNCHANGED result
    /\ UNCHANGED <<params, targetState, dirAtStart, mkdir, attempts, skipped>>

\* lines 44-53: one iteration of the for loop, with the call of clone_repo;
\* after the last one fetch returns
CloneStep ==
    /\ pc = "clone_loop"
    /\ idx <= Len(repos)
    /\ LET repo == repos[idx]
           u == first_clone_url(repo)
           advance ==
               /\ idx' = idx + 1
               /\ IF idx + 1 > Len(repos)
                  THEN /\ pc' = "idle"
                       /\ result' = Returned("fetch", dirAtStart, None)
                  ELSE UNCHANGED <<pc, result>>
           abort(err) ==
               /\ pc' = "idle"
               /\ result' = Raised("fetch", dirAtStart, err)
               /\ UNCHANGED idx
       IN  IF Len(u.raised) = 1
           THEN abort(u.raised[1]) /\ UNCHANGED <<attempts, skipped>>
           ELSE IF Truthy(u.value)
           THEN \E outcome \in CloneOutcomes :
                  /\ attempts' = Append(attempts,
                                   [args |-> <<"git", "clone", u.value[1]>>,
                                    cwd |-> params.target_directory,
                                    name |-> repo.name,
                                    outcome |-> outcome])
                  /\ LET e == clone_repo(outcome)
                     IN  IF Len(e) = 1 THEN abort(e[1]) ELSE advance
                  /\ UNCHANGED skipped
           ELSE /\ skipped' = Append(skipped, repo.name)
                /\ advance
                /\ UNCHANGED attempts
    /\ UNCHANGED <<params, targetState, page, repos, dirAtStart, mkdir,
                   requests, responses>>

\* the observations of an invocation that touches nothing outside
NoEffects ==
    /\ dirAtStart' = "none"
    /\ mkdir' = "none"
    /\ requests' = <<>>
    /\ responses' = <<>>
    /\ attempts' = <<>>
    /\ skipped' = <<>>

\* get_icon is called while icon.svg is in state f
GetIcon ==
    /\ pc = "idle"
    /\ \E f \in IconFileStates :
         LET r == get_icon(f)
         IN  result' = IF Len(r.raised) = 1
                       THEN Raised("get_icon", f, r.raised[1])
                       ELSE Returned("get_icon", f, r.value[1])
    /\ NoEffects
    /\ UNCHANGED <<params, targetState, pc, page, repos, idx>>

GetConnectionData ==
    /\ pc = "idle"
    /\ result' = Returned("get_connection_data", "", get_connection_data)
    /\ NoEffects
    /\ UNCHANGED <<params, targetState, pc, page, repos, idx>>

Next ==
    \/ Fetch
    \/ GetReposPage
    \/ CloneStep
    \/ GetIcon
    \/ GetConnectionData

Spec == Init /\ [][Next]_vars

\* the steps of fetch invocations alone
FetchNext ==
    \/ Fetch
    \/ GetReposPage
    \/ CloneStep

\* an adapter on which fetch is invoked any number of times, where every
\* HTTP call and every clone process returns
FairSpec ==
    /\ Init
    /\ [][FetchNext]_vars
    /\ WF_vars(GetReposPage)
    /\ WF_vars(CloneStep)

----------------------------------------------------------------------------
(* Vocabulary of the properties *)

Last(q) == q[Len(q)]

IsNonEmpty200(r) ==
    r.status = HttpOk /\ Len(r.body.values) = 1 /\ r.body.values[1] # <<>>
IsEmpty200(r) ==
    r.status = HttpOk /\ Len(r.body.values) = 1 /\ r.body.values[1] = <<>>
IsNoValues200(r) ==
    r.status = HttpOk /\ Len(r.body.values) = 0

\* the first n responses are all status 200 with a non-empty `values`
AllNonEmpty(n) == \A j \in 1 .. n : IsNonEmpty200(responses[j])

\* the records of the non-empty pages among the first n responses, in order
RECURSIVE Concatenation(_)
Concatenation(n) ==
    IF n = 0 THEN <<>>
    ELSE Concatenation(n - 1)
         \o (IF Len(responses[n].body.values) = 1
             THEN responses[n].body.values[1] ELSE <<>>)

\* the record has a first clone URL
HasCloneUrl(repo) ==
    /\ Len(repo.links) = 1
    /\ Len(repo.links[1].clone) = 1
    /\ Len(repo.links[1].clone[1]) >= 1
    /\ Len(repo.links[1].clone[1][1].href) = 1

\* the records of q that have a first clone URL, in order
Cloneable(q) == SelectSeq(q, HasCloneUrl)

----------------------------------------------------------------------------
(* C1: when pages 1..k are status 200 and non-empty and page k+1 is status *)
(* 200 with an empty `values`, get_repos has issued exactly the requests   *)
(* for pages 1, 2, ..., k+1 in that order and returns the concatenation of *)
(* the k non-empty pages in page order.                                    *)
C1_Pagination ==
    ( /\ result.op = "fetch"
      /\ responses # <<>>
      /\ IsEmpty200(Last(responses))
      /\ AllNonEmpty(Len(responses) - 1) )
    => /\ pc # "get_repos"
       /\ Len(requests) = Len(responses)
       /\ \A j \in 1 .. Len(requests) :
            /\ requests[j].page = j
            /\ requests[j].pagelen = PageLen
       /\ repos = Concatenation(Len(responses) - 1)

\* pages of 2, 1 and 0 records: 3 requests, 3 records
C1_Witness ==
    /\ result.op = "fetch"
    /\ Len(responses) = 3
    /\ IsEmpty200(responses[3])
    /\ AllNonEmpty(2)
    /\ Len(responses[1].body.values[1]) = 2
    /\ Len(repos) = 3
    /\ pc = "clone_loop"

----------------------------------------------------------------------------
(* C3: a non-200 listing response is the last request of the fetch, on     *)
(* whichever page it comes: fetch has raised ValueError for 404,           *)
(* PermissionError for 403 and ConnectionError with the status code for    *)
(* any other status, and no clone attempt is made.                         *)
C3_Non200Terminal ==
    result.op = "fetch" =>
      \A j \in 1 .. Len(responses) :
        responses[j].status # HttpOk =>
          /\ j = Len(responses)
          /\ Len(requests) = j
          /\ pc = "idle"
          /\ result.status = "raised"
          /\ result.value = None
          /\ result.error =
               Some(IF responses[j].status = 404
                    THEN [type |-> "ValueError", code |-> None]
                    ELSE IF responses[j].status = 403
                    THEN [type |-> "PermissionError", code |-> None]
                    ELSE [type |-> "ConnectionError",
                          code |-> Some(responses[j].status)])
          /\ attempts = <<>>

\* a 500 on page 2, after page 1 returned repositories
C3_Witness ==
    /\ result.op = "fetch"
    /\ Len(responses) = 2
    /\ IsNonEmpty200(responses[1])
    /\ responses[2].status = 500
    /\ repos # <<>>
    /\ result.status = "raised"

----------------------------------------------------------------------------
(* C5: when target_directory exists and is not a directory as fetch        *)
(* begins, fetch raises NotADirectoryError and has issued no listing       *)
(* request, made no clone attempt and created no directory.                *)
C5_NotADirectory ==
    (result.op = "fetch" /\ dirAtStart = "file")
    => /\ pc = "idle"
       /\ result.status = "raised"
       /\ result.error = Some([type |-> "NotADirectoryError", code |-> None])
       /\ requests = <<>>
       /\ attempts = <<>>
       /\ mkdir = "none"
       /\ targetState = "file"

C5_Witness ==
    /\ result.op = "fetch"
    /\ dirAtStart = "file"
    /\ result.status = "raised"

----------------------------------------------------------------------------
(* C6: when target_directory does not exist as fetch begins, it has been   *)
(* created by the time any listing request is issued; when the creation    *)
(* fails, fetch raises the OSError and issues no listing request and makes *)
(* no clone attempt.                                                       *)
C6_CreatedBeforeListing ==
    (result.op = "fetch" /\ dirAtStart = "absent")
    => /\ mkdir \in { "ok", "failed" }
       /\ (requests # <<>> \/ attempts # <<>> \/ pc # "idle")
            => (mkdir = "ok" /\ targetState = "dir")
       /\ mkdir = "failed"
            => /\ pc = "idle"
               /\ result.status = "raised"
               /\ result.error = Some([type |-> "OSError", code |-> None])
               /\ requests = <<>>
               /\ attempts = <<>>

\* the directory did not exist, was created, and a page has been requested
C6_Witness ==
    /\ result.op = "fetch"
    /\ dirAtStart = "absent"
    /\ mkdir = "ok"
    /\ targetState = "dir"
    /\ requests # <<>>

----------------------------------------------------------------------------
(* C2: a failed clone attempt (a non-zero exit of the process, or any      *)
(* other failure) affects neither the other repositories nor the outcome   *)
(* of fetch: the step that makes the attempt does not raise, and the loop  *)
(* moves on to the next record.                                            *)
C2_step ==
    ( /\ Len(attempts') = Len(attempts) + 1
      /\ Last(attempts').outcome.kind # "ok" )
    => /\ result'.status # "raised"
       /\ idx' = idx + 1
       /\ (idx' > Len(repos) <=> result'.status = "returned")

C2_CloneFailuresIsolated == [][C2_step]_vars

----------------------------------------------------------------------------
(* C4: when exactly one of the N listed records, record k, has no first    *)
(* clone URL (no links, no links.clone, an empty links.clone, or a first   *)
(* entry without href), the loop makes no clone attempt for record k, logs *)
(* the skip warning, and goes on with the records after k without raising. *)
C4_step ==
    ( /\ pc = "clone_loop"
      /\ Len(repos) - Len(Cloneable(repos)) = 1
      /\ idx <= Len(repos)
      /\ ~HasCloneUrl(repos[idx]) )
    => /\ attempts' = attempts
       /\ skipped' = Append(skipped, repos[idx].name)
       /\ result'.status # "raised"
       /\ idx' = idx + 1

C4_MissingUrlSkipped == [][C4_step]_vars

----------------------------------------------------------------------------
----------------------------------------------------------------------------
(* C8: whatever invocations came before and however they ended, the        *)
(* parameters are the ones given at construction, and a fetch lists from   *)
(* page 1 with an empty accumulator: while it lists, its page is one more  *)
(* than the number of its own requests and its accumulator holds the       *)
(* records of its own responses only.                                      *)
C8_NoCarryOver ==
    /\ params = [username |-> "alice", token |-> "secret",
                 target_directory |-> "/data/repos"]
    /\ (result.op = "fetch" /\ requests # <<>>) => requests[1].page = 1
    /\ pc = "get_repos"
         => /\ page = Len(requests) + 1
            /\ repos = Concatenation(Len(responses))

\* a fetch begins on an adapter whose earlier fetch listed more than one
\* page and went through its clone loop (idx is what that loop left)
C8_Witness ==
    /\ pc = "get_repos"
    /\ requests = <<>>
    /\ idx > 1
    /\ page = 1
    /\ repos = <<>>

----------------------------------------------------------------------------
(* C9: when every HTTP call and every clone process returns, a fetch whose *)
(* listing is answered an empty result set or a non-200 status completes;  *)
(* a fetch that does not complete has been answered status 200 with a      *)
(* non-empty result set on every page, its page number keeps growing (here *)
(* up to the cut-off of the model) and it makes no clone attempt.          *)
(* In three parts: every running fetch comes to its end or to the cut-off  *)
(* with only non-empty pages behind it; a fetch is in its listing only as  *)
(* long as every answer was status 200 and non-empty, with one request per *)
(* page and no clone attempt; and the clone loop is left only by the end   *)
(* of the fetch.                                                           *)
Endless ==
    /\ pc = "get_repos"
    /\ page = MaxPage + 1
    /\ Len(requests) = MaxPage
    /\ AllNonEmpty(Len(responses))
    /\ attempts = <<>>

C9_Completes ==
    /\ (pc # "idle") ~> (pc = "idle" \/ Endless)
    /\ [](pc = "get_repos" =>
            /\ AllNonEmpty(Len(responses))
            /\ page = Len(requests) + 1
            /\ attempts = <<>>)
    /\ [][pc = "clone_loop" => pc' \in { "clone_loop", "idle" }]_vars

\* MaxPage pages were all non-empty: the listing goes on
C9_Witness == Endless /\ Len(repos) >= MaxPage

----------------------------------------------------------------------------
(* C10: a status-200 response without `values` ends the pagination like an *)
(* empty page: no error, the accumulated records are what get_repos        *)
(* returns, and fetch enters its clone loop on them, or returns when there *)
(* are none.                                                               *)
C10_step ==
    ( /\ pc = "get_repos"
      /\ Len(responses') = Len(responses) + 1
      /\ IsNoValues200(Last(responses')) )
    => /\ repos' = repos
       /\ IF repos = <<>>
          THEN /\ pc' = "idle"
               /\ result'.status = "returned"
               /\ result'.error = None
               /\ attempts' = <<>>
          ELSE /\ pc' = "clone_loop"
               /\ idx' = 1
               /\ result'.status = "running"

C10_NoValuesEndsListing == [][C10_step]_vars

\* page 2 had no `values`; the records of page 1 are about to be cloned
C10_Witness ==
    /\ result.op = "fetch"
    /\ Len(responses) = 2
    /\ IsNonEmpty200(responses[1])
    /\ IsNoValues200(responses[2])
    /\ repos = responses[1].body.values[1]
    /\ pc = "clone_loop"
    /\ idx = 1

====
